---- MODULE Spec2Model ----
(***************************************************************************)
(* Model of the weather dashboard (src/src/App.tsx): the App component's   *)
(* state, the runSearch orchestration with its in-flight requests, the     *)
(* recent-city list and the pickDaily forecast summarizer.                 *)
(*                                                                         *)
(* Strings are sequences of one-character strings.  A nullable value is a  *)
(* sequence of length at most one: <<>> is null, <<v>> is the value v.     *)
(***************************************************************************)
EXTENDS Integers, Sequences, FiniteSets, TLC

VARIABLES
    keyConfigured,  \* KEY is a non-empty string (build-time constant)
    mounted,        \* the mount effects have run
    units,          \* useState<Units>
    q,              \* useState query text
    city,           \* useState<Geo | null>
    now,            \* useState<WeatherNow | null>
    fc,             \* useState<ForecastItem[] | null>
    loading,        \* useState(false)
    error,          \* useState<string | null>
    recent,         \* useState<string[]>
    stored,         \* localStorage[RECENT_KEY]: null or a JSON text
    searches,       \* the runSearch invocations that reached the network, in start order
    call,           \* argument of the runSearch call made by the last step, if any
    list,           \* input of pickDaily (summarizer specification)
    daily           \* null, or the output of pickDaily(list)

vars == <<keyConfigured, mounted, units, q, city, now, fc, loading, error,
          recent, stored, searches, call, list, daily>>

appVars == <<keyConfigured, mounted, units, q, city, now, fc, loading, error,
             recent, stored, searches, call>>

Null == <<>>
Some(v) == <<v>>

------------------------------------------------------------------------------
(* Bounds *)

MaxSearches == 2
MaxFreeLen == 3
MaxChip == 2
MaxPoints == 44

------------------------------------------------------------------------------
(* Strings *)

IsSpace(c) == c = " "

RECURSIVE TrimStart(_)
TrimStart(s) ==
    IF s = <<>> THEN <<>>
    ELSE IF IsSpace(Head(s)) THEN TrimStart(Tail(s)) ELSE s

RECURSIVE TrimEnd(_)
TrimEnd(s) ==
    IF s = <<>> THEN <<>>
    ELSE IF IsSpace(s[Len(s)]) THEN TrimEnd(SubSeq(s, 1, Len(s) - 1)) ELSE s

\* String.prototype.trim
Trim(s) == TrimEnd(TrimStart(s))

LowerOf(c) ==
    CASE c = "P" -> "p"
      [] c = "L" -> "l"
      [] c = "M" -> "m"
      [] c = "T" -> "t"
      [] OTHER -> c

\* String.prototype.toLowerCase
ToLowerCase(s) == [i \in 1..Len(s) |-> LowerOf(s[i])]

CharCode(c) ==
    CASE c = " " -> 32
      [] c = "-" -> 45
      [] c = "0" -> 48
      [] c = "1" -> 49
      [] c = "2" -> 50
      [] c = "3" -> 51
      [] c = "4" -> 52
      [] c = "5" -> 53
      [] c = "6" -> 54
      [] c = "7" -> 55
      [] c = "8" -> 56
      [] c = "9" -> 57
      [] c = ":" -> 58

\* the default comparison of Array.prototype.sort: by code units, a proper
\* prefix before the longer string
RECURSIVE StrLess(_, _)
StrLess(a, b) ==
    IF b = <<>> THEN FALSE
    ELSE IF a = <<>> THEN TRUE
    ELSE IF CharCode(Head(a)) < CharCode(Head(b)) THEN TRUE
    ELSE IF CharCode(Head(a)) > CharCode(Head(b)) THEN FALSE
    ELSE StrLess(Tail(a), Tail(b))

\* the position of the first space of s from position i on, 0 if there is none
RECURSIVE IndexOfSpace(_, _)
IndexOfSpace(s, i) ==
    IF i > Len(s) THEN 0
    ELSE IF IsSpace(s[i]) THEN i ELSE IndexOfSpace(s, i + 1)

\* String.prototype.split(' '): the pieces between single spaces
RECURSIVE SplitSpace(_)
SplitSpace(s) ==
    LET k == IndexOfSpace(s, 1)
    IN  IF k = 0 THEN <<s>>
        ELSE <<SubSeq(s, 1, k - 1)>> \o SplitSpace(SubSeq(s, k + 1, Len(s)))

\* String.prototype.slice(0, n)
SliceTo(s, n) == SubSeq(s, 1, IF n < Len(s) THEN n ELSE Len(s))

\* Number(...) of a string of decimal digits
RECURSIVE ToNumber(_)
ToNumber(s) ==
    IF s = <<>> THEN 0
    ELSE 10 * ToNumber(SubSeq(s, 1, Len(s) - 1)) + (CharCode(s[Len(s)]) - 48)

Abs(x) == IF x < 0 THEN -x ELSE x

------------------------------------------------------------------------------
(* pickDaily *)

Noon == 12
DailyCap == 5

\* item.dt_txt.split(' ')[0]
DayOf(item) == SplitSpace(item.dt_txt)[1]

\* Number(it.dt_txt.split(' ')[1].slice(0, 2))
HourOf(item) == ToNumber(SliceTo(SplitSpace(item.dt_txt)[2], 2))

\* groups[day]: the items of that day, in input order
Group(l, day) == SelectSeq(l, LAMBDA it : DayOf(it) = day)

\* Object.keys(groups).sort()
RECURSIVE SortKeys(_)
SortKeys(S) ==
    IF S = {} THEN <<>>
    ELSE LET m == CHOOSE x \in S : \A y \in S \ {x} : StrLess(x, y)
         IN  <<m>> \o SortKeys(S \ {m})

DayKeys(l) == SortKeys({DayOf(l[i]) : i \in 1..Len(l)})

\* mutant of Closer: the later of two equally close items wins
CloserOrEqual(diff, acc) == acc.inf \/ diff <= acc.bestDiff

\* the comparison of the inner loop; bestDiff starts at Infinity
Closer(diff, acc) == acc.inf \/ diff < acc.bestDiff

\* the inner loop over one group, from position i on
RECURSIVE BestFrom(_, _, _)
BestFrom(items, i, acc) ==
    IF i > Len(items) THEN acc.best
    ELSE LET diff == Abs(Noon - HourOf(items[i]))
         IN  IF Closer(diff, acc)
             THEN BestFrom(items, i + 1, [best |-> items[i], bestDiff |-> diff, inf |-> FALSE])
             ELSE BestFrom(items, i + 1, acc)

Best(items) == BestFrom(items, 1, [best |-> items[1], bestDiff |-> 0, inf |-> TRUE])

\* Object.keys(groups): the days in the order of their first item
RECURSIVE InsertionKeys(_, _)
InsertionKeys(l, seen) ==
    IF l = <<>> THEN <<>>
    ELSE IF DayOf(Head(l)) \in seen THEN InsertionKeys(Tail(l), seen)
    ELSE <<DayOf(Head(l))>> \o InsertionKeys(Tail(l), seen \cup {DayOf(Head(l))})

\* mutant of VisitOrder: the keys are not sorted
VisitOrderUnsorted(l) == InsertionKeys(l, {})

\* the order in which the outer loop visits the groups
VisitOrder(l) == DayKeys(l)

\* results.slice(0, 5)
Truncate(results) == SubSeq(results, 1, IF Len(results) < DailyCap THEN Len(results) ELSE DailyCap)

pickDaily(l) ==
    LET days == VisitOrder(l)
        results == [k \in 1..Len(days) |-> Best(Group(l, days[k]))]
    IN  Truncate(results)

------------------------------------------------------------------------------
(* Forecast feeds: the inputs of the summarizer specification *)

Digit(n) ==
    CASE n = 0 -> "0" [] n = 1 -> "1" [] n = 2 -> "2" [] n = 3 -> "3" [] n = 4 -> "4"
      [] n = 5 -> "5" [] n = 6 -> "6" [] n = 7 -> "7" [] n = 8 -> "8" [] n = 9 -> "9"

TwoDigits(n) == <<Digit(n \div 10), Digit(n % 10)>>

\* "MM-DD HH:00" of the hour h of the d-th day counted from January 29th
\* (the API's dt_txt, without the year and the seconds)
DtTxt(d, h) ==
    LET month == IF 29 + d <= 31 THEN 1 ELSE 2
        day   == IF 29 + d <= 31 THEN 29 + d ELSE d - 2
    IN  TwoDigits(month) \o <<"-">> \o TwoDigits(day) \o <<" ">> \o TwoDigits(h) \o <<":", "0", "0">>

\* ForecastItem: dt_txt, and main standing for the rest of the sample's data
Item(txt, data) == [dt_txt |-> txt, main |-> data]

\* a feed whose samples are told apart by their position
Tagged(txts) == [i \in 1..Len(txts) |-> Item(txts[i], i)]

Reverse(s) == [i \in 1..Len(s) |-> s[Len(s) + 1 - i]]

\* n samples, every step * 3 hours, from the 3-hour slot s of the first day on
Cadence(s, step, n) ==
    [k \in 1..n |-> DtTxt((s + (k - 1) * step) \div 8, 3 * ((s + (k - 1) * step) % 8))]

ChronoFeeds ==
    { Cadence(s, step, n) : s \in 0..7, step \in 1..2, n \in 0..MaxPoints }

FreeTxts == { DtTxt(d, h) : d \in {0, 3, 4}, h \in {3, 9, 12, 15, 21} }

FreeFeeds == UNION { [1..n -> FreeTxts] : n \in 0..MaxFreeLen }

Feeds == { Tagged(t) : t \in ChronoFeeds \cup { Reverse(c) : c \in ChronoFeeds } \cup FreeFeeds }

------------------------------------------------------------------------------
(* The recent-city list and its persisted copy *)

RecentCap == 6

Take(s, n) == SubSeq(s, 1, IF n < Len(s) THEN n ELSE Len(s))

\* mutant of NextRecent: the filter compares the names as they are
NextRecentCaseSensitive(name, r) ==
    Take(<<name>> \o SelectSeq(r, LAMBDA c : c # name), RecentCap)

\* next of saveRecent: [name, ...recent.filter(c => c.toLowerCase() !== name.toLowerCase())].slice(0, 6)
NextRecent(name, r) ==
    Take(<<name>> \o SelectSeq(r, LAMBDA c : ToLowerCase(c) # ToLowerCase(name)), RecentCap)

RECURSIVE JoinQuoted(_)
JoinQuoted(l) ==
    IF l = <<>> THEN <<>>
    ELSE <<"\"">> \o Head(l) \o <<"\"">>
         \o (IF Len(l) > 1 THEN <<",">> ELSE <<>>) \o JoinQuoted(Tail(l))

\* JSON.stringify of an array of strings (the names hold nothing to escape)
JsonStringify(l) == <<"[">> \o JoinQuoted(l) \o <<"]">>

\* the strings of a JSON array, from its first element on; acc holds those read
RECURSIVE ParseItems(_, _)
ParseItems(s, acc) ==
    IF s = <<>> \/ Head(s) # "\"" THEN [ok |-> FALSE, value |-> <<>>]
    ELSE LET body == Tail(s)
         IN  IF \A i \in 1..Len(body) : body[i] # "\"" THEN [ok |-> FALSE, value |-> <<>>]
             ELSE LET k == CHOOSE i \in 1..Len(body) :
                               body[i] = "\"" /\ \A j \in 1..(i - 1) : body[j] # "\""
                      item == SubSeq(body, 1, k - 1)
                      rest == SubSeq(body, k + 1, Len(body))
                  IN  IF rest = <<"]">> THEN [ok |-> TRUE, value |-> Append(acc, item)]
                      ELSE IF rest # <<>> /\ Head(rest) = ","
                           THEN ParseItems(Tail(rest), Append(acc, item))
                           ELSE [ok |-> FALSE, value |-> <<>>]

\* JSON.parse of a text that is an array of strings; anything else throws
JsonParse(s) ==
    IF s = <<"[", "]">> THEN [ok |-> TRUE, value |-> <<>>]
    ELSE IF s # <<>> /\ Head(s) = "[" THEN ParseItems(Tail(s), <<>>)
    ELSE [ok |-> FALSE, value |-> <<>>]

\* initial state of recent: JSON.parse(localStorage.getItem(RECENT_KEY) || '[]'), [] when it throws
LoadRecent(item) ==
    LET text == IF item = Null \/ item[1] = <<>> THEN <<"[", "]">> ELSE item[1]
        parsed == JsonParse(text)
    IN  IF parsed.ok THEN parsed.value ELSE <<>>

------------------------------------------------------------------------------
(* The external services *)

\* the display names the geocoding service resolves to
GeoNames == { <<"P", "a">>, <<"L">> }

Geo(n) == [name |-> n]

\* a response of the geocoding endpoint: its status and its candidate list
GeocodeResults ==
    { [ok |-> FALSE, data |-> <<>>], [ok |-> TRUE, data |-> <<>>] }
        \cup { [ok |-> TRUE, data |-> <<Geo(n)>>] : n \in GeoNames }

\* WeatherNow served for the coordinates of g in the unit system u
Weather(g, u) == [name |-> g.name, main |-> <<g.name, u>>]

\* ForecastRes.list served for the coordinates of g in the unit system u
ApiList(g, u) ==
    LET txts == Cadence(6, 1, 3)
    IN  [i \in 1..Len(txts) |-> Item(txts[i], <<g.name, u>>)]

\* what localStorage may hold when the page is opened
StoredAtStart ==
    { Null,
      Some(<<"[", "\"", "a">>),
      Some(JsonStringify(<< <<"p", "a">>, <<"a">>, <<"b">>, <<"c">>, <<"d">>, <<"e">> >>)) }

\* what the user may type into the search box
TypedTexts == { <<" ", " ">>, <<" ", "L">> }

------------------------------------------------------------------------------
(* App *)

MissingKeyMsg == "Missing API key. Set VITE_OPENWEATHER_API_KEY environment variable."

OtherUnits(u) == IF u = "imperial" THEN "metric" ELSE "imperial"

\* an invocation of runSearch that reached geocode(cityName): the units and
\* recent its closure holds, where it stands, and what it has received
NewSearch(u, r) ==
    [units |-> u, recent |-> r, pc |-> "geocode",
     g |-> Null, req |-> Null, w |-> "none", f |-> "none", outcome |-> "pending"]

\* mutant of RunSearch: the blank check does not trim
RunSearchNoTrim(cityName, u, r) ==
    /\ call' = Some(cityName)
    /\ IF cityName = <<>>
       THEN UNCHANGED <<loading, error, searches>>
       ELSE IF ~keyConfigured
       THEN /\ error' = Some(MissingKeyMsg)
            /\ UNCHANGED <<loading, searches>>
       ELSE /\ Len(searches) < MaxSearches
            /\ loading' = TRUE
            /\ error' = Null
            /\ searches' = Append(searches, NewSearch(u, r))

\* runSearch up to its first await, called with the units and recent of the
\* render that created the callback
RunSearch(cityName, u, r) ==
    /\ call' = Some(cityName)
    /\ IF Trim(cityName) = <<>>
       THEN UNCHANGED <<loading, error, searches>>
       ELSE IF ~keyConfigured
       THEN /\ error' = Some(MissingKeyMsg)
            /\ UNCHANGED <<loading, searches>>
       ELSE /\ Len(searches) < MaxSearches
            /\ loading' = TRUE
            /\ error' = Null
            /\ searches' = Append(searches, NewSearch(u, r))

\* mutant of UnitsEffect: the search is run for the text of the search box
UnitsEffectOfQuery(u) ==
    IF city # Null
    THEN RunSearch(q, u, recent)
    ELSE call' = Null /\ UNCHANGED <<loading, error, searches>>

\* the effect on [units]: if (city) runSearch(city.name), with the callback of
\* the render that has the unit system u
UnitsEffect(u) ==
    IF city # Null
    THEN RunSearch(city[1].name, u, recent)
    ELSE call' = Null /\ UNCHANGED <<loading, error, searches>>

\* the mount effects: the initial search, and the units effect
Mount ==
    /\ ~mounted
    /\ mounted' = TRUE
    /\ RunSearch(q, units, recent)
    /\ UNCHANGED <<keyConfigured, units, q, city, now, fc, recent, stored, list, daily>>

\* the unit toggle button, and the effect its render runs
ToggleUnits ==
    /\ mounted
    /\ units' = OtherUnits(units)
    /\ UnitsEffect(units')
    /\ UNCHANGED <<keyConfigured, mounted, q, city, now, fc, recent, stored, list, daily>>

\* onChange of the search input, which is disabled while loading
Type(t) ==
    /\ mounted
    /\ ~loading
    /\ q' = t
    /\ call' = Null
    /\ UNCHANGED <<keyConfigured, mounted, units, city, now, fc, loading, error,
                   recent, stored, searches, list, daily>>

\* handleSearch
HandleSearch ==
    /\ RunSearch(q, units, recent)
    /\ UNCHANGED <<keyConfigured, mounted, units, q, city, now, fc, recent, stored, list, daily>>

\* the search button, disabled while loading or when q is blank
ClickSearch ==
    /\ mounted
    /\ ~loading
    /\ Trim(q) # <<>>
    /\ HandleSearch

\* Enter in the search input, which is disabled while loading
PressEnter ==
    /\ mounted
    /\ ~loading
    /\ HandleSearch

\* the i-th recent-city chip: setQ(c); runSearch(c)
ClickChip(i) ==
    /\ mounted
    /\ i \in 1..Len(recent)
    /\ q' = recent[i]
    /\ RunSearch(recent[i], units, recent)
    /\ UNCHANGED <<keyConfigured, mounted, units, city, now, fc, recent, stored, list, daily>>

\* a finished invocation: its closure and its requests are gone; outcome is
\* "ok", or the request that failed
Done(outcome, g) ==
    [pc |-> "done", outcome |-> outcome, units |-> "", recent |-> <<>>, req |-> Null,
     w |-> "none", f |-> "none", g |-> g]

Update(i, fields) ==
    [searches EXCEPT ![i] = [k \in DOMAIN searches[i] |->
        IF k \in DOMAIN fields THEN fields[k] ELSE searches[i][k]]]

\* mutant of Catch: the forecast is left on screen
CatchKeepsForecast(msg) ==
    /\ error' = Some(msg)
    /\ now' = Null
    /\ loading' = FALSE
    /\ UNCHANGED <<fc, city, recent, stored>>

\* the catch and finally blocks of runSearch
Catch(msg) ==
    /\ error' = Some(msg)
    /\ now' = Null
    /\ fc' = Null
    /\ loading' = FALSE
    /\ UNCHANGED <<city, recent, stored>>

\* pickDaily(f.list) of each forecast the service may return, computed once
DailyOf ==
    [n \in GeoNames, u \in {"metric", "imperial"} |-> pickDaily(ApiList(Geo(n), u))]

\* saveRecent of the render that created the search's callback
SaveRecent(name, r) ==
    /\ recent' = NextRecent(name, r)
    /\ stored' = Some(JsonStringify(NextRecent(name, r)))

\* runSearch after Promise.all resolved, and its finally block
Then(s) ==
    /\ now' = Some(Weather(s.req[1].g, s.req[1].units))
    /\ fc' = Some(DailyOf[s.req[1].g.name, s.req[1].units])
    /\ SaveRecent(s.g[1].name, s.recent)
    /\ loading' = FALSE
    /\ UNCHANGED <<city, error>>

\* the geocoding request of search i is answered
GeocodeResponse(i, res) ==
    /\ i \in 1..Len(searches)
    /\ searches[i].pc = "geocode"
    /\ call' = Null
    /\ UNCHANGED <<keyConfigured, mounted, units, q, list, daily>>
    /\ IF ~res.ok
       THEN /\ Catch("Geocoding failed")
            /\ searches' = Update(i, Done("geocode", Null))
       ELSE IF res.data = <<>>
       THEN /\ Catch("City not found")
            /\ searches' = Update(i, Done("geocode", Null))
       ELSE /\ city' = Some(res.data[1])
            /\ searches' = Update(i, [pc |-> "weather", g |-> Some(res.data[1]),
                                      req |-> Some([g |-> res.data[1], units |-> searches[i].units]),
                                      w |-> "pending", f |-> "pending"])
            /\ UNCHANGED <<now, fc, loading, error, recent, stored>>

\* one of the two requests of Promise.all is answered: part is "w" (current)
\* or "f" (forecast), rest is the other one.  Promise.all rejects with the
\* first failure, whatever the state of the other request
Settle(i, part, rest, ok, msg) ==
    /\ i \in 1..Len(searches)
    /\ searches[i].pc = "weather"
    /\ searches[i][part] = "pending"
    /\ call' = Null
    /\ UNCHANGED <<keyConfigured, mounted, units, q, list, daily>>
    /\ IF ~ok
       THEN /\ Catch(msg)
            /\ searches' = Update(i, Done(part, Null))
       ELSE IF searches[i][rest] = "ok"
       THEN /\ Then(searches[i])
            /\ searches' = Update(i, Done("ok", searches[i].g))
       ELSE /\ searches' = Update(i, (part :> "ok"))
            /\ UNCHANGED <<city, now, fc, loading, error, recent, stored>>

CurrentResponse(i, ok) ==
    /\ i \in 1..Len(searches)
    /\ Settle(i, "w", "f", ok, "Weather data failed to load")

ForecastResponse(i, ok) ==
    /\ i \in 1..Len(searches)
    /\ Settle(i, "f", "w", ok, "Forecast data failed to load")

Init ==
    /\ keyConfigured \in BOOLEAN
    /\ mounted = FALSE
    /\ units = "imperial"
    /\ q = <<"M">>
    /\ city = Null
    /\ now = Null
    /\ fc = Null
    /\ loading = FALSE
    /\ error = Null
    /\ stored \in StoredAtStart
    /\ recent = LoadRecent(stored)
    /\ searches = <<>>
    /\ call = Null
    /\ list = <<>>
    /\ daily = Null

Next ==
    \/ Mount
    \/ ToggleUnits
    \/ \E t \in TypedTexts : Type(t)
    \/ ClickSearch
    \/ PressEnter
    \/ \E i \in 1..MaxChip : ClickChip(i)
    \/ \E i \in 1..MaxSearches, res \in GeocodeResults : GeocodeResponse(i, res)
    \/ \E i \in 1..MaxSearches, ok \in BOOLEAN : CurrentResponse(i, ok)
    \/ \E i \in 1..MaxSearches, ok \in BOOLEAN : ForecastResponse(i, ok)

Spec == Init /\ [][Next]_vars

------------------------------------------------------------------------------
(* The summarizer on its own *)

InitDaily ==
    /\ keyConfigured = TRUE
    /\ mounted = FALSE
    /\ units = "imperial"
    /\ q = <<"M">>
    /\ city = Null
    /\ now = Null
    /\ fc = Null
    /\ loading = FALSE
    /\ error = Null
    /\ stored = Null
    /\ recent = <<>>
    /\ searches = <<>>
    /\ call = Null
    /\ list \in Feeds
    /\ daily = Null

Summarize ==
    /\ daily = Null
    /\ daily' = Some(pickDaily(list))
    /\ UNCHANGED <<appVars, list>>

NextDaily == Summarize

SpecDaily == InitDaily /\ [][NextDaily]_vars

------------------------------------------------------------------------------
(* Vocabulary of the properties *)

Finished(i) == searches[i].pc = "done"

Succeeded(i) == searches[i].pc = "done" /\ searches[i].outcome = "ok"

\* the step completes search i successfully
Succeeds(i) ==
    /\ i \in DOMAIN searches
    /\ searches[i].pc = "weather"
    /\ searches'[i].pc = "done"
    /\ searches'[i].outcome = "ok"

\* the step ends search i because its geocoding failed
GeocodeFails(i) ==
    /\ i \in DOMAIN searches
    /\ searches[i].pc = "geocode"
    /\ searches'[i].pc = "done"

\* the step ends search i because one of its two weather requests failed
FetchFails(i) ==
    /\ i \in DOMAIN searches
    /\ searches[i].pc = "weather"
    /\ searches'[i].pc = "done"
    /\ searches'[i].outcome \in {"w", "f"}

\* the displayed weather is that of the location g
Shows(g) ==
    /\ city = Some(g)
    /\ now # Null
    /\ now[1].main[1] = g.name
    /\ fc # Null
    /\ \A k \in DOMAIN fc[1] : fc[1][k].main[1] = g.name

EqualIgnoringCase(a, b) == ToLowerCase(a) = ToLowerCase(b)

WellFormedRecent(r) ==
    /\ Len(r) <= 6
    /\ \A i, j \in DOMAIN r : i # j => ~EqualIgnoringCase(r[i], r[j])

\* the name followed by the entries of r that do not match it ignoring
\* case, in their order, cut to 6
Pushed(name, r) ==
    LET kept == SelectSeq(r, LAMBDA c : ~EqualIgnoringCase(c, name))
        all  == <<name>> \o kept
    IN  SubSeq(all, 1, IF Len(all) < 6 THEN Len(all) ELSE 6)

------------------------------------------------------------------------------
(* Claims *)

\* C1: once all of two or more searches have completed successfully, city,
\* current and forecast are those of the search that was started last,
\* however the responses of overlapping searches were interleaved.
C1_LatestSearchWins ==
    (Len(searches) >= 2 /\ \A i \in DOMAIN searches : Succeeded(i))
        => Shows(searches[Len(searches)].g[1])

\* C2: an error is never shown next to weather data: whenever error is
\* non-null, current and forecast are both null.
C2_NoDataNextToError ==
    error # Null => (now = Null /\ fc = Null)

\* C3: current is null exactly when forecast is null, and a search of which
\* one weather request fails ends with current and forecast null and an
\* error set, whichever response arrived first.
C3_AllOrNothing ==
    /\ [](now = Null <=> fc = Null)
    /\ [][\A i \in DOMAIN searches :
            FetchFails(i) => (now' = Null /\ fc' = Null /\ error' # Null)]_vars

C3_Witness ==
    \E i \in DOMAIN searches :
        /\ Finished(i)
        /\ searches[i].outcome = "f"
        /\ \E j \in DOMAIN searches : Succeeded(j)
        /\ now = Null
        /\ fc = Null
        /\ error = Some("Forecast data failed to load")

\* C4: a search whose geocoding fails ends with error set to the failure's
\* message, with current, forecast and city null and with loading false.
C4_GeocodeFailureClearsAll ==
    [][\A i \in DOMAIN searches :
        GeocodeFails(i) =>
            /\ error' \in {Some("Geocoding failed"), Some("City not found")}
            /\ now' = Null
            /\ fc' = Null
            /\ city' = Null
            /\ loading' = FALSE]_vars

\* C5: a search that completes successfully pushes its resolved name onto
\* recentCities as the list stands at that completion, and the persisted
\* copy equals the new list.
C5_PushOntoCurrentList ==
    [][\A i \in DOMAIN searches :
        Succeeds(i) =>
            /\ recent' = Pushed(searches[i].g[1].name, recent)
            /\ stored' # Null
            /\ JsonParse(stored'[1]) = [ok |-> TRUE, value |-> recent']]_vars

\* C6: recentCities has at most 6 entries, no two of them equal ignoring
\* case, and a search that completes successfully leaves its resolved name
\* as the first entry.
C6_RecentWellFormed ==
    /\ []WellFormedRecent(recent)
    /\ [][\A i \in DOMAIN searches :
            Succeeds(i) => (recent' # <<>> /\ recent'[1] = searches[i].g[1].name)]_vars

C6_Witness ==
    \E i \in DOMAIN searches :
        /\ Succeeded(i)
        /\ recent[1] = searches[i].g[1].name
        /\ Len(recent) = 6
        /\ \A k \in DOMAIN recent : recent[k] # <<"e">>
        /\ \E k \in DOMAIN recent : recent[k] = <<"P", "a">>
        /\ \A k \in DOMAIN recent : recent[k] # <<"p", "a">>

\* C7: a change of the unit system while city is non-null starts a search
\* for city.name with the new unit system, and that search issues its two
\* weather requests with that unit system; while city is null it starts none.
C7_UnitChangeRefetches ==
    [][/\ units' # units =>
            IF city # Null
            THEN /\ Len(searches') = Len(searches) + 1
                 /\ call' = Some(city[1].name)
                 /\ searches'[Len(searches')].pc = "geocode"
                 /\ searches'[Len(searches')].units = units'
            ELSE /\ searches' = searches
                 /\ call' = Null
       /\ \A i \in DOMAIN searches :
            (searches[i].pc = "geocode" /\ searches'[i].pc = "weather") =>
                /\ searches'[i].req = Some([g |-> city'[1], units |-> searches[i].units])
                /\ searches'[i].w = "pending"
                /\ searches'[i].f = "pending"]_vars

C7_Witness ==
    /\ city # Null
    /\ call = Some(city[1].name)
    /\ q # city[1].name
    /\ units = "metric"
    /\ searches[Len(searches)].pc = "geocode"
    /\ searches[Len(searches)].units = "metric"

\* C8: without an API key, a search with non-blank text sets error to the
\* missing-key message, issues no request and leaves loading, city, current,
\* forecast and recentCities alone; a search with blank text changes nothing.
C8_MissingKeyAndBlank ==
    [][call' # Null =>
        IF Trim(call'[1]) = <<>>
        THEN UNCHANGED <<error, loading, city, now, fc, recent, stored, searches>>
        ELSE ~keyConfigured =>
                /\ error' = Some(MissingKeyMsg)
                /\ UNCHANGED <<loading, city, now, fc, recent, stored, searches>>]_vars

C8_Witness ==
    /\ ~keyConfigured
    /\ call = Some(<<" ", " ">>)
    /\ error = Some(MissingKeyMsg)
    /\ searches = <<>>
    /\ ~loading

C10_ClosestToNoonFirst ==
    daily # Null =>
        \A k \in DOMAIN daily[1] :
            LET same == {i \in DOMAIN list : DayOf(list[i]) = DayOf(daily[1][k])}
                dist(i) == Abs(12 - HourOf(list[i]))
            IN  \E i \in same :
                    /\ daily[1][k] = list[i]
                    /\ \A j \in same : dist(i) < dist(j) \/ (dist(i) = dist(j) /\ i <= j)

C10_Witness ==
    /\ daily # Null
    /\ \E k \in DOMAIN daily[1] :
        /\ [i \in DOMAIN Group(list, DayOf(daily[1][k])) |->
                HourOf(Group(list, DayOf(daily[1][k]))[i])] = <<3, 9, 15, 21>>
        /\ HourOf(daily[1][k]) = 9

\* some search that passed the blank and key checks has not completed
InFlight == \E i \in DOMAIN searches : ~Finished(i)

\* the displayed weather was fetched in the unit system u
FetchedIn(u) ==
    /\ now[1].main[2] = u
    /\ fc # Null
    /\ \A k \in DOMAIN fc[1] : fc[1][k].main[2] = u

\* C11: loading is true whenever a search that passed the blank and key
\* checks has not yet completed, also when searches overlap.
C11_LoadingWhileInFlight ==
    InFlight => loading

\* C12: whenever no search is in flight and current is non-null, current and
\* forecast were fetched with the unit system that is active.
C12_DataInActiveUnits ==
    (~InFlight /\ now # Null) => FetchedIn(units)

====
